---- MODULE Spec2Model ----
(***************************************************************************)
(* Model of the UAV flight-log catalog pipeline:                           *)
(*   src/src/main.py           FlightDataProcessor (catalog build and      *)
(*                             telemetry normalisation)                    *)
(*   src/src/load_catalogs.py  bulk loader into the relational store       *)
(*   src/src/gui_app.py        presentation layer (failure-event add and   *)
(*                             delete)                                     *)
(*                                                                         *)
(* Numbers.  Epoch values reach 1e18, beyond TLC's 32-bit integers, so a   *)
(* non-negative integer is held exactly as three base-1e9 limbs            *)
(* <<a, b, c>> = a*1e18 + b*1e9 + c.  Negative raw values are outside the  *)
(* modelled input domain.                                                  *)
(*                                                                         *)
(* Cells.  A CSV cell is <<tag, n>>: "num" carries the number n, the other *)
(* tags ("empty", "nan", "text", "inf", "-inf", "Infinity") carry Zero.    *)
(***************************************************************************)
EXTENDS Integers, Sequences, FiniteSets, TLC

VARIABLES
    \* ---- FlightDataProcessor._to_datetime_guess, one call
    series,          \* the argument
    u,               \* the local u ("none" on the early returns)
    result,          \* the returned sequence
    gpc,             \* "ready" before the call, "done" after
    \* ---- FlightDataProcessor, one run of main.py
    csv_files,       \* sorted(base_path.rglob('*.csv'))
    fi,              \* index of the file the loop of _process_csv_files is at
    pc,              \* "scan", "aggregate", "signals", "done" or "crashed"
    file_rows,       \* self.file_rows
    failure_rows,    \* self.failure_rows
    topic_schemas,   \* self.topic_schemas, keyed by <<topic, column>>
    flight_bounds,   \* self.flight_bounds
    flight_rows,     \* self.flight_rows
    out,             \* the four catalog files under out/alfa_catalog
    signal_data,     \* the list signal_data of create_signal_table_from_telemetry
    signal_csv,      \* out/alfa_catalog/signal_data.csv
    \* ---- load_catalogs.py and the store
    lpc,             \* where main() of load_catalogs.py is ("idle": not running)
    db,              \* the committed content of the store
    tx,              \* the store as the loader's open transaction sees it
    event_seq,       \* last value of the serial failure_event.event_id
    ri,              \* the row load_signals is at (i of line 167)
    rows_batch,      \* rows_batch of load_signals
    total_inserted,  \* total_inserted of load_signals
    total_skipped,   \* total_skipped of load_signals
    batches,         \* the batches load_signals has had the sink execute
    loads,           \* runs of load_catalogs.py so far
    \* ---- gui_app.py, MainApp
    current_flight_id,   \* self.current_flight_id ("" for None)
    flights_tree,        \* the flight ids listed in self.flights_tree
    events_tree,         \* the event ids listed in self.events_tree
    gui_ops,             \* additions and deletions confirmed so far
    last_report,         \* self.last_report (NoReport for None)
    exported             \* the file export_report_json wrote last

guessVars == <<series, u, result, gpc>>
buildVars == <<csv_files, fi, pc, file_rows, failure_rows, topic_schemas,
               flight_bounds, flight_rows, out, signal_data, signal_csv>>
loadVars  == <<lpc, db, tx, event_seq, ri, rows_batch, total_inserted,
               total_skipped, batches, loads>>
guiVars   == <<current_flight_id, flights_tree, events_tree, gui_ops,
               last_report, exported>>

----------------------------------------------------------------------------
\* Bounds of the model

\* longest series handed to _to_datetime_guess in SpecGuess
MaxLen == 2

\* most CSV files in a scanned tree
MaxFiles == 2

\* most runs of load_catalogs.py
MaxLoads == 2

\* most failure-event additions and deletions confirmed in the GUI
MaxGuiOps == 2

\* batch_size of load_signals.  The source sets 10_000; the model scales it
\* down so that a few samples fill several batches.
batch_size == 2

----------------------------------------------------------------------------
\* Exact arithmetic on limb triples

Zero == <<0, 0, 0>>

N(c) == <<0, 0, c>>

Less(x, y) ==
    \/ x[1] < y[1]
    \/ x[1] = y[1] /\ x[2] < y[2]
    \/ x[1] = y[1] /\ x[2] = y[2] /\ x[3] < y[3]

Leq(x, y) == x = y \/ Less(x, y)

MinN(x, y) == IF Less(y, x) THEN y ELSE x
MaxN(x, y) == IF Less(x, y) THEN y ELSE x

\* x * 1000, limb by limb (no intermediate product leaves 32 bits)
Mul1000(x) ==
    LET c0 == (x[3] % 1000000) * 1000
        k0 == x[3] \div 1000000
        b0 == (x[2] % 1000000) * 1000 + k0
        k1 == x[2] \div 1000000
    IN  <<x[1] * 1000 + k1, b0, c0>>

\* x * 1e9 for x < 1e18
MulBase(x) == <<x[2], x[3], 0>>

\* 2^63 - 1, the largest nanosecond count of a pandas Timestamp
Int64Max == <<9, 223372036, 854775807>>

\* the thresholds of _to_datetime_guess
E14 == <<0, 100000, 0>>
E12 == <<0, 1000, 0>>
E10 == <<0, 10, 0>>
E5  == <<0, 0, 100000>>

----------------------------------------------------------------------------
\* pandas values

NaN  == <<"nan", Zero>>
NaT  == <<"NaT", Zero>>
PInf == <<"inf", Zero>>
MInf == <<"-inf", Zero>>
Num(n) == <<"num", n>>
Ts(n)  == <<"ts", n>>

\* pd.to_numeric(x, errors='coerce') on one cell: numbers stay, the
\* spellings of infinity become +-inf, everything else becomes NaN
ToNumeric(cell) ==
    CASE cell[1] = "num" -> cell
      [] cell[1] \in {"inf", "Infinity"} -> PInf
      [] cell[1] = "-inf" -> MInf
      [] OTHER -> NaN

\* a > b on floats that are numbers or +-inf (never NaN)
FGreater(a, b) ==
    CASE a[1] = "inf"  -> b[1] # "inf"
      [] a[1] = "-inf" -> FALSE
      [] OTHER -> \/ b[1] = "-inf"
                  \/ b[1] = "num" /\ Less(b[2], a[2])

\* s.max(skipna=True): NaN when no entry is valid
RECURSIVE SeriesMax(_)
SeriesMax(s) ==
    IF s = <<>> THEN NaN
    ELSE LET h == s[1]
             r == SeriesMax(Tail(s))
         IN  IF h[1] = "nan" THEN r
             ELSE IF r[1] = "nan" THEN h
             ELSE IF FGreater(r, h) THEN r ELSE h

\* two faulty variants of GuessUnit, for comparison: the thresholds taken
\* inclusively; the millisecond threshold written one digit short
GuessUnit_OffByBoundary(mx) ==
    IF mx[1] = "nan" THEN "none"
    ELSE IF ~FGreater(Num(E14), mx) THEN "ns"
    ELSE IF ~FGreater(Num(E12), mx) THEN "us"
    ELSE IF ~FGreater(Num(E10), mx) THEN "ms"
    ELSE IF ~FGreater(Num(E5), mx) THEN "s"
    ELSE "none"

GuessUnit_ShortMs(mx) ==
    IF mx[1] = "nan" THEN "none"
    ELSE IF FGreater(mx, Num(E14)) THEN "ns"
    ELSE IF FGreater(mx, Num(E12)) THEN "us"
    ELSE IF FGreater(mx, Num(<<0, 1, 0>>)) THEN "ms"
    ELSE IF FGreater(mx, Num(E5)) THEN "s"
    ELSE "none"

\* the unit chosen by the if/elif chain, "none" on either early return
GuessUnit(mx) ==
    IF mx[1] = "nan" THEN "none"
    ELSE IF FGreater(mx, Num(E14)) THEN "ns"
    ELSE IF FGreater(mx, Num(E12)) THEN "us"
    ELSE IF FGreater(mx, Num(E10)) THEN "ms"
    ELSE IF FGreater(mx, Num(E5)) THEN "s"
    ELSE "none"

\* nanoseconds of the number n read in unit un
ToNs(n, un) ==
    CASE un = "ns" -> n
      [] un = "us" -> Mul1000(n)
      [] un = "ms" -> Mul1000(Mul1000(n))
      [] un = "s"  -> MulBase(n)

\* pd.to_datetime(x, unit=un, errors='coerce') on one float: NaN, +-inf and
\* out-of-range instants become NaT
ToDatetime(x, un) ==
    IF x[1] # "num" THEN NaT
    ELSE IF un = "s" /\ x[2][1] > 0 THEN NaT
    ELSE LET ns == ToNs(x[2], un)
         IN  IF Less(Int64Max, ns) THEN NaT ELSE Ts(ns)

ToDatetimeGuess(ser) ==
    LET s  == [i \in 1..Len(ser) |-> ToNumeric(ser[i])]
        mx == SeriesMax(s)
        un == GuessUnit(mx)
    IN  IF un = "none"
        THEN [i \in 1..Len(s) |-> NaT]
        ELSE [i \in 1..Len(s) |-> ToDatetime(s[i], un)]

UnitOf(ser) ==
    GuessUnit(SeriesMax([i \in 1..Len(ser) |-> ToNumeric(ser[i])]))

----------------------------------------------------------------------------
\* The scanned tree

None == <<"None", Zero>>

\* the recognized time-column names, in priority order (main.py:98, 143)
TimeNames == <<"%time", "time", "stamp", "rosbagTimestamp">>

\* the time-column names of the normalizer (main.py:176, 186)
SignalTimeNames == <<"%time", "time", "stamp">>

SeqRange(q) == {q[i] : i \in 1..Len(q)}

\* file names of the model and what the two name tests of main.py say of
\* them: failure_pat.search(name) (the group 'kind', "" for no match) and
\* "mavros" in name.lower()
FailureKind(stem) ==
    CASE stem = "a-failure_status-engine" -> "engine"
      [] stem = "root-failure_status-rudder" -> "rudder"
      [] OTHER -> ""

IsMavros(stem) == stem \in {"a-mavros-imu"}

\* relative paths of the model, listed in the order sorted() gives them
\* (Path objects compare by their parts); the last part is the stem of a
\* .csv file
Paths ==
    << <<"flightA", "a-failure_status-engine">>,
       <<"flightA", "a-mavros-imu">>,
       <<"flightA", "sub", "a-mavros-imu">>,
       <<"flightB", "a-mavros-imu">>,
       <<"flightB", "b-gps">>,
       <<"root-failure_status-rudder">> >>

PathRank(parts) == CHOOSE i \in 1..Len(Paths) : Paths[i] = parts

\* instants used by the sample tables: 1.5e18 ns and the seconds after it
T0 == <<1, 500000000, 0>>
T1 == <<1, 500000001, 0>>
T2 == <<1, 500000002, 0>>

Cell(tag) == <<tag, Zero>>

\* file contents: the header's columns, the data rows, whether the file
\* can be opened, whether its first 25 rows parse and whether all of it
\* parses

\* the example of the failure-detection property
ExampleTable ==
    [cols |-> <<"%time", "field.data">>,
     rows |-> << <<Num(N(100)), Num(N(0))>>, <<Num(N(200)), Num(N(0))>>,
                 <<Num(N(300)), Num(N(3))>>, <<Num(N(400)), Num(N(0))>> >>,
     readable |-> TRUE, head_ok |-> TRUE, full_ok |-> TRUE]

\* epoch nanoseconds, the signal leaves zero in the second row
OnsetTable ==
    [cols |-> <<"%time", "field.data">>,
     rows |-> << <<Num(T0), Num(N(0))>>, <<Num(T1), Num(N(5))>>,
                 <<Num(T2), Num(N(0))>> >>,
     readable |-> TRUE, head_ok |-> TRUE, full_ok |-> TRUE]

\* the signal never leaves zero
AllZeroTable ==
    [cols |-> <<"%time", "field.data">>,
     rows |-> << <<Num(T0), Num(N(0))>>, <<Num(T1), Num(N(0))>> >>,
     readable |-> TRUE, head_ok |-> TRUE, full_ok |-> TRUE]

\* nothing but a time column
TimeOnlyTable ==
    [cols |-> <<"%time">>,
     rows |-> << <<Num(T0)>>, <<Num(T2)>> >>,
     readable |-> TRUE, head_ok |-> TRUE, full_ok |-> TRUE]

\* the time column is called 'time'
TimeNamedTable ==
    [cols |-> <<"time", "field.data">>,
     rows |-> << <<Num(T1), Num(N(0))>>, <<Num(T2), Num(N(1))>> >>,
     readable |-> TRUE, head_ok |-> TRUE, full_ok |-> TRUE]

\* telemetry in epoch milliseconds whose first value alone reads as
\* seconds; the last three rows carry the same instant; an infinite, a
\* missing and a textual value
TelemetryTable ==
    [cols |-> <<"%time", "field.x", "field.y">>,
     rows |-> << <<Num(<<0, 5, 0>>), Num(N(7)), Cell("inf")>>,
                 <<Num(<<0, 20, 0>>), Num(N(8)), Cell("empty")>>,
                 <<Num(<<0, 20, 0>>), Num(N(9)), Cell("text")>>,
                 <<Num(<<0, 20, 0>>), Num(N(10)), Num(N(3))>> >>,
     readable |-> TRUE, head_ok |-> TRUE, full_ok |-> TRUE]

\* a table with a second recognized time column and a spelled-out infinity
StampedTable ==
    [cols |-> <<"time", "rosbagTimestamp", "field.z">>,
     rows |-> << <<Num(T0), Num(T0), Cell("Infinity")>>,
                 <<Cell("text"), Num(T1), Num(N(4))>> >>,
     readable |-> TRUE, head_ok |-> TRUE, full_ok |-> TRUE]

\* the signal column has a missing value and is read as float64
FloatSignalTable ==
    [cols |-> <<"%time", "field.data">>,
     rows |-> << <<Num(T0), Cell("empty")>>, <<Num(T1), Num(N(2))>> >>,
     readable |-> TRUE, head_ok |-> TRUE, full_ok |-> TRUE]

\* the header parses, a later row does not
BrokenRowTable ==
    [cols |-> <<"%time", "field.data">>,
     rows |-> << <<Num(T0), Num(N(1))>> >>,
     readable |-> TRUE, head_ok |-> TRUE, full_ok |-> FALSE]

\* no delimiter parses the header
UnparsedTable ==
    [cols |-> <<>>, rows |-> << <<Cell("text")>> >>,
     readable |-> TRUE, head_ok |-> FALSE, full_ok |-> FALSE]

\* the file cannot be opened
UnreadableFile ==
    [cols |-> <<>>, rows |-> <<>>,
     readable |-> FALSE, head_ok |-> FALSE, full_ok |-> FALSE]

Contents ==
    {ExampleTable, OnsetTable, AllZeroTable, TimeOnlyTable, TimeNamedTable,
     TelemetryTable, StampedTable, FloatSignalTable, BrokenRowTable,
     UnparsedTable, UnreadableFile}

\* a tree: contents for at most MaxFiles of the paths
Trees ==
    UNION { [P -> Contents] :
            P \in {Q \in SUBSET SeqRange(Paths) : Cardinality(Q) <= MaxFiles} }

\* sorted(self.base_path.rglob('*.csv')) as a sequence of files
RECURSIVE SortedFiles(_, _)
SortedFiles(tree, i) ==
    IF i > Len(Paths) THEN <<>>
    ELSE (IF Paths[i] \in DOMAIN tree
          THEN << [parts |-> Paths[i], content |-> tree[Paths[i]]] >>
          ELSE <<>>) \o SortedFiles(tree, i + 1)

----------------------------------------------------------------------------
\* FlightDataProcessor helpers

Stem(f) == f.parts[Len(f.parts)]

\* _flight_id_for
FlightIdFor(f) == IF Len(f.parts) > 1 THEN f.parts[1] ELSE Stem(f)

\* number of rows _read_csv_head reads
HeadRows == 25

\* _read_csv_head: the columns of the head frame, or "none" for None
HeadParsed(f) == f.content.readable /\ f.content.head_ok

\* pd.read_csv of the whole file succeeds
FullParsed(f) == f.content.readable /\ f.content.full_ok

ColIndex(cols, c) == CHOOSE i \in 1..Len(cols) : cols[i] = c

\* the cells of column c over the given rows
Column(cols, rows, c) ==
    [i \in 1..Len(rows) |-> rows[i][ColIndex(cols, c)]]

\* str(head[c].dtype) of a column of parsed cells
DType(cells) ==
    IF cells = <<>> \/ \E i \in 1..Len(cells) : cells[i][1] \in {"text"}
    THEN "object"
    ELSE IF \A i \in 1..Len(cells) : cells[i][1] = "num"
    THEN "int64"
    ELSE "float64"

HeadOf(rows) ==
    SubSeq(rows, 1, IF Len(rows) < HeadRows THEN Len(rows) ELSE HeadRows)

\* next((c for c in names if c in columns), None), "" standing for None
RECURSIVE FirstIn(_, _)
FirstIn(names, cols) ==
    IF names = <<>> THEN ""
    ELSE IF names[1] \in SeqRange(cols) THEN names[1]
    ELSE FirstIn(Tail(names), cols)

\* dt.min() and dt.max(): NaT when no entry is defined
RECURSIVE DtMin(_)
DtMin(dt) ==
    IF dt = <<>> THEN NaT
    ELSE LET r == DtMin(Tail(dt))
         IN  IF dt[1] = NaT THEN r
             ELSE IF r = NaT THEN dt[1]
             ELSE Ts(MinN(dt[1][2], r[2]))

RECURSIVE DtMax(_)
DtMax(dt) ==
    IF dt = <<>> THEN NaT
    ELSE LET r == DtMax(Tail(dt))
         IN  IF dt[1] = NaT THEN r
             ELSE IF r = NaT THEN dt[1]
             ELSE Ts(MaxN(dt[1][2], r[2]))

\* _count_rows_quick: lines minus the header, None when open() fails
CountRowsQuick(f) ==
    IF f.content.readable THEN Num(N(Len(f.content.rows))) ELSE None

\* _file_md5: the digest identifies the bytes, modelled by the content
FileMd5(f) == <<f.content.cols, f.content.rows>>

\* the span (tmin, tmax) of lines 100-108
FileSpan(f, ts_col) ==
    IF ts_col # "" /\ FullParsed(f)
    THEN LET dt == ToDatetimeGuess(
                       Column(f.content.cols, f.content.rows, ts_col))
         IN  <<DtMin(dt), DtMax(dt)>>
    ELSE <<None, None>>

\* a faulty variant of FoldBounds, for comparison: the upper end is taken
\* from the latest file instead of the maximum
FoldBounds_LastHigh(bounds, fid, span) ==
    IF span[1] # None /\ span[1] # NaT
    THEN LET lo == IF fid \in DOMAIN bounds
                   THEN Ts(MinN(bounds[fid][1][2], span[1][2]))
                   ELSE span[1]
         IN  [x \in DOMAIN bounds \cup {fid} |->
                 IF x = fid THEN <<lo, span[2]>> ELSE bounds[x]]
    ELSE bounds

\* lines 109-113
FoldBounds(bounds, fid, span) ==
    IF span[1] # None /\ span[1] # NaT
    THEN LET lo == IF fid \in DOMAIN bounds
                   THEN Ts(MinN(bounds[fid][1][2], span[1][2]))
                   ELSE span[1]
             hi == IF fid \in DOMAIN bounds
                   THEN Ts(MaxN(bounds[fid][2][2], span[2][2]))
                   ELSE span[2]
         IN  [x \in DOMAIN bounds \cup {fid} |->
                 IF x = fid THEN <<lo, hi>> ELSE bounds[x]]
    ELSE bounds

\* two faulty variants of FoldSchema, for comparison: the latest
\* observation replaces the set; a set once created is never extended
FoldSchema_Overwrite(schemas, topic, cols, rows) ==
    LET keys == {<<topic, c>> : c \in SeqRange(cols)}
    IN  [k \in DOMAIN schemas \cup keys |->
            IF k \in keys
            THEN {DType(Column(cols, HeadOf(rows), k[2]))}
            ELSE schemas[k]]

FoldSchema_KeepFirst(schemas, topic, cols, rows) ==
    LET keys == {<<topic, c>> : c \in SeqRange(cols)}
    IN  [k \in DOMAIN schemas \cup keys |->
            IF k \in DOMAIN schemas THEN schemas[k]
            ELSE {DType(Column(cols, HeadOf(rows), k[2]))}]

\* lines 129-132
FoldSchema(schemas, topic, cols, rows) ==
    LET keys == {<<topic, c>> : c \in SeqRange(cols)}
    IN  [k \in DOMAIN schemas \cup keys |->
            (IF k \in DOMAIN schemas THEN schemas[k] ELSE {}) \cup
            (IF k \in keys
             THEN {DType(Column(cols, HeadOf(rows), k[2]))} ELSE {})]

\* pd.to_numeric(x, errors='coerce').fillna(0) != 0 on one cell
NonZero(cell) ==
    LET x == ToNumeric(cell)
    IN  x[1] \in {"inf", "-inf"} \/ (x[1] = "num" /\ x[2] # Zero)

\* the failure row appended at lines 154-157 for a file whose name matches
FailureRow(f) ==
    LET cols == f.content.cols
        rows == f.content.rows
        cand == SelectSeq(cols, LAMBDA c : c \notin SeqRange(TimeNames))
        val_col == IF FullParsed(f) /\ cand # <<>> THEN cand[1] ELSE ""
        nz == IF val_col = "" THEN {}
              ELSE {i \in 1..Len(rows) :
                      NonZero(rows[i][ColIndex(cols, val_col)])}
        evt == IF nz # {} /\ "%time" \in SeqRange(cols)
               THEN LET i0 == CHOOSE i \in nz : \A j \in nz : i <= j
                    IN  ToDatetimeGuess(
                            <<rows[i0][ColIndex(cols, "%time")]>>)[1]
               ELSE None
    IN  [FlightID |-> FlightIdFor(f), FaultType |-> FailureKind(Stem(f)),
         EventTimeUTC |-> evt, FailFile |-> Stem(f), ValueColumn |-> val_col]

\* the failure rows one file adds (lines 135-157)
FailureRowsOf(f) ==
    IF FailureKind(Stem(f)) # "" THEN <<FailureRow(f)>> ELSE <<>>

\* the file row appended at lines 116-126
FileRow(f) ==
    LET cols   == IF HeadParsed(f) THEN f.content.cols ELSE <<>>
        ts_col == FirstIn(TimeNames, cols)
        span   == FileSpan(f, ts_col)
    IN  [FlightID |-> FlightIdFor(f), FilePath |-> f.parts,
         TopicName |-> Stem(f), Rows |-> CountRowsQuick(f),
         Cols |-> Len(cols), HasTimeCol |-> ts_col # "",
         TimeMinUTC |-> span[1], TimeMaxUTC |-> span[2],
         MD5 |-> FileMd5(f)]

\* the loop of _process_csv_files (lines 86-132) as a function of the
\* sequence of files it is run over: the final flight_bounds and
\* topic_schemas
RECURSIVE ScanBounds(_)
ScanBounds(files) ==
    IF files = <<>> THEN <<>>
    ELSE LET row == FileRow(files[Len(files)])
         IN  FoldBounds(ScanBounds(SubSeq(files, 1, Len(files) - 1)),
                        row.FlightID, <<row.TimeMinUTC, row.TimeMaxUTC>>)

RECURSIVE ScanSchema(_)
ScanSchema(files) ==
    IF files = <<>> THEN <<>>
    ELSE LET f == files[Len(files)]
         IN  FoldSchema(ScanSchema(SubSeq(files, 1, Len(files) - 1)),
                        Stem(f),
                        IF HeadParsed(f) THEN f.content.cols ELSE <<>>,
                        f.content.rows)

----------------------------------------------------------------------------
\* FlightDataProcessor actions

BuildBlank ==
    /\ fi = 1
    /\ file_rows = <<>>
    /\ failure_rows = <<>>
    /\ topic_schemas = <<>>
    /\ flight_bounds = <<>>
    /\ flight_rows = <<>>
    /\ out = [written |-> FALSE, flights |-> <<>>, files |-> <<>>,
              failures |-> <<>>, schema |-> <<>>]
    /\ signal_data = <<>>
    /\ signal_csv = [written |-> FALSE, rows |-> <<>>]

\* before main.py runs on a tree
BuildStart ==
    /\ csv_files \in {SortedFiles(t, 1) : t \in Trees}
    /\ pc = "scan"
    /\ BuildBlank

\* the processor is not part of the specification at hand
BuildIdle ==
    /\ csv_files = <<>>
    /\ pc = "idle"
    /\ BuildBlank

\* one iteration of the loop of _process_csv_files on a file that can be
\* opened
ProcessFile ==
    /\ pc = "scan"
    /\ fi <= Len(csv_files)
    /\ csv_files[fi].content.readable
    /\ LET f    == csv_files[fi]
           row  == FileRow(f)
           cols == IF HeadParsed(f) THEN f.content.cols ELSE <<>>
       IN  /\ flight_bounds' = FoldBounds(flight_bounds, row.FlightID,
                                         <<row.TimeMinUTC, row.TimeMaxUTC>>)
           /\ file_rows' = Append(file_rows, row)
           /\ topic_schemas' = FoldSchema(topic_schemas, Stem(f), cols,
                                          f.content.rows)
           /\ failure_rows' = failure_rows \o FailureRowsOf(f)
    /\ fi' = fi + 1
    /\ UNCHANGED <<csv_files, pc, flight_rows, out, signal_data, signal_csv>>
    /\ UNCHANGED <<guessVars, loadVars, guiVars>>

\* the same iteration on a file that cannot be opened: _file_md5 has no
\* handler, its exception leaves _process_csv_files, process_data and the
\* script
ProcessFileCrash ==
    /\ pc = "scan"
    /\ fi <= Len(csv_files)
    /\ ~csv_files[fi].content.readable
    /\ pc' = "crashed"
    /\ UNCHANGED <<csv_files, fi, file_rows, failure_rows, topic_schemas,
                   flight_bounds, flight_rows, out, signal_data, signal_csv>>
    /\ UNCHANGED <<guessVars, loadVars, guiVars>>

\* the loop of _process_csv_files is over
ScanDone ==
    /\ pc = "scan"
    /\ fi > Len(csv_files)
    /\ pc' = "aggregate"
    /\ UNCHANGED <<csv_files, fi, file_rows, failure_rows, topic_schemas,
                   flight_bounds, flight_rows, out, signal_data, signal_csv>>
    /\ UNCHANGED <<guessVars, loadVars, guiVars>>

\* hi - lo for lo <= hi.  Read in base 1e9 the limbs <<a, b, c>> of a
\* nanosecond count are a*1e9 + b whole seconds and c nanoseconds, which
\* is the value of total_seconds()
SubN(hi, lo) ==
    LET c  == hi[3] - lo[3]
        k0 == IF c < 0 THEN 1 ELSE 0
        b  == hi[2] - lo[2] - k0
        k1 == IF b < 0 THEN 1 ELSE 0
    IN  <<hi[1] - lo[1] - k1,
          IF b < 0 THEN b + 1000000000 ELSE b,
          IF c < 0 THEN c + 1000000000 ELSE c>>

\* a faulty variant of FlightRow, for comparison: only the files with a
\* known span are counted
FlightRow_CountsSpanned(fid) ==
    LET lo == flight_bounds[fid][1]
        hi == flight_bounds[fid][2]
    IN  [FlightID |-> fid,
         FilesCSV |-> Cardinality({i \in 1..Len(file_rows) :
                                     /\ file_rows[i].FlightID = fid
                                     /\ file_rows[i].TimeMinUTC[1] = "ts"}),
         HasFailureGT |-> \E i \in 1..Len(failure_rows) :
                             failure_rows[i].FlightID = fid,
         StartUTC |-> lo, EndUTC |-> hi,
         DurationSec |-> Num(SubN(hi[2], lo[2]))]

\* the flight row of lines 213-222
FlightRow(fid) ==
    LET lo == flight_bounds[fid][1]
        hi == flight_bounds[fid][2]
    IN  [FlightID |-> fid,
         FilesCSV |-> Cardinality({i \in 1..Len(file_rows) :
                                     file_rows[i].FlightID = fid}),
         HasFailureGT |-> \E i \in 1..Len(failure_rows) :
                             failure_rows[i].FlightID = fid,
         StartUTC |-> lo, EndUTC |-> hi,
         DurationSec |-> Num(SubN(hi[2], lo[2]))]

\* order of the strings the model sorts by
StrRank(str) ==
    CASE str = "" -> 0
      [] str = "a-failure_status-engine" -> 1
      [] str = "a-mavros-imu" -> 2
      [] str = "b-gps" -> 3
      [] str = "engine" -> 4
      [] str = "flightA" -> 5
      [] str = "flightB" -> 6
      [] str = "float64" -> 7
      [] str = "int64" -> 8
      [] str = "object" -> 9
      [] str = "root-failure_status-rudder" -> 10
      [] str = "rudder" -> 11

\* stable sort of a sequence by Before (a strict weak order): the place of
\* an element is the number of elements that go before it
StableSort(q, Before(_, _)) ==
    LET Place(i) == 1 + Cardinality({j \in 1..Len(q) :
                          \/ Before(q[j], q[i])
                          \/ ~Before(q[i], q[j]) /\ j < i})
    IN  [p \in 1..Len(q) |-> q[CHOOSE i \in 1..Len(q) : Place(i) = p]]

\* sorted(S) for a set of strings
SortedSet(S) ==
    [p \in 1..Cardinality(S) |->
        CHOOSE x \in S :
            Cardinality({y \in S : StrRank(y) < StrRank(x)}) = p - 1]

\* sort_values(['FlightID', 'TopicName'])
FileBefore(a, b) ==
    \/ StrRank(a.FlightID) < StrRank(b.FlightID)
    \/ /\ a.FlightID = b.FlightID
       /\ StrRank(a.TopicName) < StrRank(b.TopicName)

\* order of EventTimeUTC values, missing ones last
EvtBefore(x, y) ==
    /\ x[1] = "ts"
    /\ y[1] # "ts" \/ Less(x[2], y[2])

EvtSame(x, y) == (x[1] # "ts" /\ y[1] # "ts") \/ x = y

\* sort_values(['FlightID', 'EventTimeUTC', 'FaultType'])
FailureBefore(a, b) ==
    \/ StrRank(a.FlightID) < StrRank(b.FlightID)
    \/ /\ a.FlightID = b.FlightID
       /\ \/ EvtBefore(a.EventTimeUTC, b.EventTimeUTC)
          \/ /\ EvtSame(a.EventTimeUTC, b.EventTimeUTC)
             /\ StrRank(a.FaultType) < StrRank(b.FaultType)

\* ', '.join(sorted(dts)) as the sequence of the joined names
JoinSorted(dts) == SortedSet(dts)

\* DataFrame.to_csv of one field
CsvBool(b) == IF b THEN "True" ELSE "False"
CsvTime(x) == IF x[1] = "ts" THEN x ELSE Cell("")
CsvNumber(x) == IF x[1] = "num" THEN x ELSE Cell("")

CsvFlight(r) ==
    [FlightID |-> r.FlightID, FilesCSV |-> CsvNumber(Num(N(r.FilesCSV))),
     HasFailureGT |-> CsvBool(r.HasFailureGT),
     StartUTC |-> CsvTime(r.StartUTC), EndUTC |-> CsvTime(r.EndUTC),
     DurationSec |-> CsvNumber(r.DurationSec)]

CsvFile(r) ==
    [FlightID |-> r.FlightID, FilePath |-> r.FilePath,
     TopicName |-> r.TopicName, Rows |-> CsvNumber(r.Rows),
     Cols |-> CsvNumber(Num(N(r.Cols))),
     HasTimeCol |-> CsvBool(r.HasTimeCol),
     TimeMinUTC |-> CsvTime(r.TimeMinUTC),
     TimeMaxUTC |-> CsvTime(r.TimeMaxUTC), MD5 |-> r.MD5]

CsvFailure(r) ==
    [FlightID |-> r.FlightID, FaultType |-> r.FaultType,
     EventTimeUTC |-> CsvTime(r.EventTimeUTC), FailFile |-> r.FailFile,
     ValueColumn |-> r.ValueColumn]

MapSeq(q, F(_)) == [i \in 1..Len(q) |-> F(q[i])]

\* the flight rows of lines 212-222, held in the order of line 225
FlightRowsBuilt ==
    LET ids == SortedSet(DOMAIN flight_bounds)
    IN  [i \in 1..Len(ids) |-> FlightRow(ids[i])]

\* sort_values raises KeyError on a frame built from an empty list
FrameSortFails ==
    \/ flight_bounds = <<>>
    \/ file_rows = <<>>
    \/ failure_rows = <<>>
    \/ topic_schemas = <<>>

\* process_data after _process_csv_files, all four frames sortable: the
\* catalogs are written
Aggregate ==
    /\ pc = "aggregate"
    /\ ~FrameSortFails
    /\ flight_rows' = FlightRowsBuilt
    /\ out' = [written  |-> TRUE,
               flights  |-> MapSeq(FlightRowsBuilt, CsvFlight),
               files    |-> MapSeq(StableSort(file_rows, FileBefore),
                                   CsvFile),
               failures |-> MapSeq(StableSort(failure_rows, FailureBefore),
                                   CsvFailure),
               schema   |-> [k \in DOMAIN topic_schemas |->
                                JoinSorted(topic_schemas[k])]]
    /\ pc' = "signals"
    /\ UNCHANGED <<csv_files, fi, file_rows, failure_rows, topic_schemas,
                   flight_bounds, signal_data, signal_csv>>
    /\ UNCHANGED <<guessVars, loadVars, guiVars>>

\* process_data after _process_csv_files, one of the frames empty: the
\* KeyError of sort_values ends the script before anything is written
AggregateCrash ==
    /\ pc = "aggregate"
    /\ FrameSortFails
    /\ flight_rows' = FlightRowsBuilt
    /\ pc' = "crashed"
    /\ UNCHANGED <<csv_files, fi, file_rows, failure_rows, topic_schemas,
                   flight_bounds, out, signal_data, signal_csv>>
    /\ UNCHANGED <<guessVars, loadVars, guiVars>>

\* to_csv of a telemetry value: missing values are written empty, floats
\* in their repr; a cell of a column read as text keeps its spelling
CsvValue(cell, dtype) ==
    CASE cell[1] = "num" -> cell
      [] cell[1] \in {"empty", "nan"} -> Cell("")
      [] cell[1] = "Infinity" ->
            IF dtype = "object" THEN Cell("Infinity") ELSE Cell("inf")
      [] OTHER -> Cell(cell[1])

\* the samples lines 165-198 append for one file
SamplesOf(f) ==
    LET cols == f.content.cols
        rows == f.content.rows
        tcol == FirstIn(SignalTimeNames, cols)
    IN  IF ~IsMavros(Stem(f)) \/ ~FullParsed(f) \/ tcol = "" THEN <<>>
        ELSE LET timestamps == ToDatetimeGuess(Column(cols, rows, tcol))
                 chans == SelectSeq(cols, LAMBDA c :
                                      c \notin SeqRange(SignalTimeNames))
                 R == Len(rows)
             IN  [k \in 1..(Len(chans) * R) |->
                    LET ch  == chans[((k - 1) \div R) + 1]
                        idx == ((k - 1) % R) + 1
                    IN  [flight_id |-> FlightIdFor(f),
                         ts |-> timestamps[idx],
                         channel |-> ch,
                         value |-> CsvValue(
                             rows[idx][ColIndex(cols, ch)],
                             DType(Column(cols, rows, ch)))]]

RECURSIVE SamplesOfAll(_)
SamplesOfAll(files) ==
    IF files = <<>> THEN <<>>
    ELSE SamplesOf(files[1]) \o SamplesOfAll(Tail(files))

CsvSample(r) == [r EXCEPT !.ts = CsvTime(r.ts)]

\* create_signal_table_from_telemetry(csv_files) after process_data
Normalize ==
    /\ pc = "signals"
    /\ signal_data' = SamplesOfAll(csv_files)
    /\ signal_csv' = IF signal_data' # <<>>
                     THEN [written |-> TRUE,
                           rows |-> MapSeq(signal_data', CsvSample)]
                     ELSE signal_csv
    /\ pc' = "done"
    /\ UNCHANGED <<csv_files, fi, file_rows, failure_rows, topic_schemas,
                   flight_bounds, flight_rows, out>>
    /\ UNCHANGED <<guessVars, loadVars, guiVars>>


----------------------------------------------------------------------------
\* The storage sink and load_catalogs.py

\* SQL NULL / Python None read back from a CSV field
Null == Cell("NULL")

\* r[...] or None
OrNone(x) == IF x = Cell("") THEN Null ELSE x

\* r[...] in ("True", "true", "1")
ParseBool(str) == str \in {"True", "true", "1"}

\* the empty store
EmptyDb ==
    [flight |-> <<>>, file_asset |-> <<>>, failure_event |-> {},
     topic_schema |-> <<>>, signal |-> <<>>]

\* the tuple load_flights builds from a row (lines 26-33)
FlightTuple(r) ==
    [start_utc |-> OrNone(r.StartUTC), end_utc |-> OrNone(r.EndUTC),
     duration_sec |-> OrNone(r.DurationSec),
     has_failure_gt |-> ParseBool(r.HasFailureGT),
     files_csv |-> IF r.FilesCSV = Cell("") THEN Num(Zero) ELSE r.FilesCSV]

\* INSERT INTO flight ... ON CONFLICT (flight_id) DO UPDATE SET (all fields)
UpsertFlights(store, rows) ==
    LET ids == {rows[i].FlightID : i \in 1..Len(rows)}
        RowOf(id) == rows[CHOOSE i \in 1..Len(rows) : rows[i].FlightID = id]
    IN  [store EXCEPT !.flight =
            [id \in DOMAIN store.flight \cup ids |->
                IF id \in ids THEN FlightTuple(RowOf(id))
                ELSE store.flight[id]]]

\* the tuple load_file_assets builds from a row (lines 56-66)
FileTuple(r) ==
    [flight_id |-> r.FlightID, path |-> r.FilePath,
     topic_name |-> r.TopicName, rows |-> OrNone(r.Rows),
     cols |-> OrNone(r.Cols), has_timecol |-> ParseBool(r.HasTimeCol),
     time_min_utc |-> OrNone(r.TimeMinUTC),
     time_max_utc |-> OrNone(r.TimeMaxUTC)]

\* INSERT INTO file_asset ... ON CONFLICT (md5) DO NOTHING
InsertFileAssets(store, rows) ==
    LET keys == {rows[i].MD5 : i \in 1..Len(rows)}
        First(k) == CHOOSE i \in 1..Len(rows) :
                        /\ rows[i].MD5 = k
                        /\ \A j \in 1..Len(rows) : rows[j].MD5 = k => i <= j
    IN  [store EXCEPT !.file_asset =
            [k \in DOMAIN store.file_asset \cup keys |->
                IF k \in DOMAIN store.file_asset THEN store.file_asset[k]
                ELSE FileTuple(rows[First(k)])]]

\* INSERT INTO failure_event ... (no conflict clause); event_id is a serial
\* that starts after seq
InsertFailureEvents(store, rows, seq) ==
    [store EXCEPT !.failure_event = @ \cup
        { [event_id |-> seq + i, flight_id |-> rows[i].FlightID,
           fault_type |-> rows[i].FaultType,
           event_time_utc |-> OrNone(rows[i].EventTimeUTC),
           source |-> rows[i].FailFile] : i \in 1..Len(rows) }]

\* INSERT INTO topic_schema ... ON CONFLICT (topic_name, column_name)
\* DO UPDATE SET observed_dtypes = EXCLUDED.observed_dtypes
UpsertTopicSchema(store, schema) ==
    [store EXCEPT !.topic_schema =
        [k \in DOMAIN store.topic_schema \cup DOMAIN schema |->
            IF k \in DOMAIN schema THEN schema[k]
            ELSE store.topic_schema[k]]]

SignalKey(t) == <<t.flight_id, t.ts, t.channel>>

\* a faulty variant of InsertSignals, for comparison: a row with a stored
\* key replaces the stored value
InsertSignals_LastWins(store, batch) ==
    LET keys == {SignalKey(batch[i]) : i \in 1..Len(batch)}
        Last(k) == CHOOSE i \in 1..Len(batch) :
                       /\ SignalKey(batch[i]) = k
                       /\ \A j \in 1..Len(batch) :
                             SignalKey(batch[j]) = k => j <= i
    IN  [store EXCEPT !.signal =
            [k \in DOMAIN store.signal \cup keys |->
                IF k \in keys THEN batch[Last(k)].value
                ELSE store.signal[k]]]

\* INSERT INTO signal ... ON CONFLICT (flight_id, ts, channel) DO NOTHING
InsertSignals(store, batch) ==
    LET keys == {SignalKey(batch[i]) : i \in 1..Len(batch)}
        First(k) == CHOOSE i \in 1..Len(batch) :
                        /\ SignalKey(batch[i]) = k
                        /\ \A j \in 1..Len(batch) :
                              SignalKey(batch[j]) = k => i <= j
    IN  [store EXCEPT !.signal =
            [k \in DOMAIN store.signal \cup keys |->
                IF k \in DOMAIN store.signal THEN store.signal[k]
                ELSE batch[First(k)].value]]

\* raw_val.lower() on the spellings of the model
Lower(str) == IF str = "Infinity" THEN "infinity" ELSE str

\* lines 172-181: the row is counted in total_skipped
SignalSkipped(r) ==
    LET raw_val == r.value
    IN  \/ raw_val[1] = ""
        \/ Lower(raw_val[1]) \in {"nan", "infinity", "-infinity"}
        \/ raw_val[1] \notin {"num", "inf", "-inf"}    \* float() raises

\* float(raw_val) where it does not raise
Float(raw_val) ==
    CASE raw_val[1] = "num" -> raw_val
      [] raw_val[1] = "inf" -> PInf
      [] raw_val[1] = "-inf" -> MInf

\* the tuple of lines 183-188
SignalTuple(r) ==
    [flight_id |-> r.flight_id, ts |-> r.ts, channel |-> r.channel,
     value |-> Float(r.value)]

LoadIdle ==
    /\ lpc = "idle"
    /\ db = EmptyDb
    /\ tx = EmptyDb
    /\ event_seq = 0
    /\ ri = 1
    /\ rows_batch = <<>>
    /\ total_inserted = 0
    /\ total_skipped = 0
    /\ batches = <<>>
    /\ loads = 0

\* main(): connect and open the transaction (lines 227-230); the script
\* main.py has ended, normally or not
LoadBegin ==
    /\ lpc = "idle"
    /\ pc \in {"done", "crashed"}
    /\ loads < MaxLoads
    /\ lpc' = "flights"
    /\ tx' = db
    /\ ri' = 1
    /\ rows_batch' = <<>>
    /\ total_inserted' = 0
    /\ total_skipped' = 0
    /\ batches' = <<>>
    /\ UNCHANGED <<db, event_seq, loads>>
    /\ UNCHANGED <<guessVars, buildVars, guiVars>>

\* load_flights(cur)
LoadFlights ==
    /\ lpc = "flights"
    /\ out.written
    /\ tx' = UpsertFlights(tx, out.flights)
    /\ lpc' = "files"
    /\ UNCHANGED <<db, event_seq, ri, rows_batch, total_inserted,
                   total_skipped, batches, loads>>
    /\ UNCHANGED <<guessVars, buildVars, guiVars>>

\* load_flights(cur) without flights_catalog.csv: path.open raises, the
\* with-block rolls back and main() ends
LoadFlightsMissing ==
    /\ lpc = "flights"
    /\ ~out.written
    /\ lpc' = "idle"
    /\ tx' = db
    /\ loads' = loads + 1
    /\ UNCHANGED <<db, event_seq, ri, rows_batch, total_inserted,
                   total_skipped, batches>>
    /\ UNCHANGED <<guessVars, buildVars, guiVars>>

\* load_file_assets(cur)
LoadFileAssets ==
    /\ lpc = "files"
    /\ tx' = InsertFileAssets(tx, out.files)
    /\ lpc' = "failures"
    /\ UNCHANGED <<db, event_seq, ri, rows_batch, total_inserted,
                   total_skipped, batches, loads>>
    /\ UNCHANGED <<guessVars, buildVars, guiVars>>

\* load_failure_events(cur)
LoadFailureEvents ==
    /\ lpc = "failures"
    /\ tx' = InsertFailureEvents(tx, out.failures, event_seq)
    /\ event_seq' = event_seq + Len(out.failures)
    /\ lpc' = "schema"
    /\ UNCHANGED <<db, ri, rows_batch, total_inserted, total_skipped,
                   batches, loads>>
    /\ UNCHANGED <<guessVars, buildVars, guiVars>>

\* load_topic_schema(cur)
LoadTopicSchema ==
    /\ lpc = "schema"
    /\ tx' = UpsertTopicSchema(tx, out.schema)
    /\ lpc' = "signals"
    /\ UNCHANGED <<db, event_seq, ri, rows_batch, total_inserted,
                   total_skipped, batches, loads>>
    /\ UNCHANGED <<guessVars, buildVars, guiVars>>

\* load_signals(cur): one iteration of the loop over signal_data.csv
\* (lines 167-204)
LoadSignalRow ==
    /\ lpc = "signals"
    /\ signal_csv.written
    /\ ri <= Len(signal_csv.rows)
    /\ LET r == signal_csv.rows[ri]
       IN  IF SignalSkipped(r)
           THEN /\ total_skipped' = total_skipped + 1
                /\ UNCHANGED <<tx, rows_batch, total_inserted, batches>>
           ELSE LET b == Append(rows_batch, SignalTuple(r))
                IN  IF Len(b) >= batch_size
                    THEN /\ tx' = InsertSignals(tx, b)
                         /\ total_inserted' = total_inserted + Len(b)
                         /\ rows_batch' = <<>>
                         /\ batches' = Append(batches, b)
                         /\ UNCHANGED total_skipped
                    ELSE /\ rows_batch' = b
                         /\ UNCHANGED <<tx, total_inserted, total_skipped,
                                        batches>>
    /\ ri' = ri + 1
    /\ UNCHANGED <<lpc, db, event_seq, loads>>
    /\ UNCHANGED <<guessVars, buildVars, guiVars>>

\* a faulty variant of LoadSignalsEnd, for comparison: the rows left in the
\* pending batch at the end of the input are not executed
LoadSignalsEnd_NoRemainder ==
    /\ lpc = "signals"
    /\ ~signal_csv.written \/ ri > Len(signal_csv.rows)
    /\ lpc' = "commit"
    /\ UNCHANGED <<tx, total_inserted, batches>>
    /\ UNCHANGED <<db, event_seq, ri, rows_batch, total_skipped, loads>>
    /\ UNCHANGED <<guessVars, buildVars, guiVars>>

\* load_signals(cur): the end of the input (lines 206-220), or no
\* signal_data.csv at all (lines 151-153)
LoadSignalsEnd ==
    /\ lpc = "signals"
    /\ ~signal_csv.written \/ ri > Len(signal_csv.rows)
    /\ IF rows_batch # <<>>
       THEN /\ tx' = InsertSignals(tx, rows_batch)
            /\ total_inserted' = total_inserted + Len(rows_batch)
            /\ batches' = Append(batches, rows_batch)
       ELSE UNCHANGED <<tx, total_inserted, batches>>
    /\ lpc' = "commit"
    /\ UNCHANGED <<db, event_seq, ri, rows_batch, total_skipped, loads>>
    /\ UNCHANGED <<guessVars, buildVars, guiVars>>

\* the with-block of main() ends normally: commit
LoadCommit ==
    /\ lpc = "commit"
    /\ db' = tx
    /\ lpc' = "idle"
    /\ loads' = loads + 1
    /\ UNCHANGED <<tx, event_seq, ri, rows_batch, total_inserted,
                   total_skipped, batches>>
    /\ UNCHANGED <<guessVars, buildVars, guiVars>>

\* a faulty variant of LoadFail, for comparison: the connection commits each
\* statement on its own, so what was written before the exception stays
LoadFail_Autocommit ==
    /\ lpc \in {"flights", "files", "failures", "schema", "signals"}
    /\ lpc = "flights" => out.written
    /\ lpc = "signals" =>
          \/ /\ signal_csv.written
             /\ ri <= Len(signal_csv.rows)
             /\ ~SignalSkipped(signal_csv.rows[ri])
             /\ Len(rows_batch) + 1 >= batch_size
          \/ /\ ~signal_csv.written \/ ri > Len(signal_csv.rows)
             /\ rows_batch # <<>>
    /\ lpc' = "idle"
    /\ db' = tx
    /\ loads' = loads + 1
    /\ UNCHANGED <<tx, event_seq, ri, rows_batch, total_inserted,
                   total_skipped, batches>>
    /\ UNCHANGED <<guessVars, buildVars, guiVars>>

\* the sink raises in the statement the loader is about to execute (a
\* lost connection, a rejected row): the exception leaves the with-block
\* of main(), which rolls the transaction back
LoadFail ==
    /\ lpc \in {"flights", "files", "failures", "schema", "signals"}
    /\ lpc = "flights" => out.written
    /\ lpc = "signals" =>
          \/ /\ signal_csv.written
             /\ ri <= Len(signal_csv.rows)
             /\ ~SignalSkipped(signal_csv.rows[ri])
             /\ Len(rows_batch) + 1 >= batch_size
          \/ /\ ~signal_csv.written \/ ri > Len(signal_csv.rows)
             /\ rows_batch # <<>>
    /\ lpc' = "idle"
    /\ tx' = db
    /\ loads' = loads + 1
    /\ UNCHANGED <<db, event_seq, ri, rows_batch, total_inserted,
                   total_skipped, batches>>
    /\ UNCHANGED <<guessVars, buildVars, guiVars>>

----------------------------------------------------------------------------
\* The presentation layer (gui_app.py) and the store's procedure and trigger

\* CALL add_failure_event(flight, fault, t, src): the store's procedure
\* records the event and raises the flight's flag
AddFailureEventProc(store, fid, fault, t, src, id) ==
    [store EXCEPT
        !.failure_event = @ \cup
            {[event_id |-> id, flight_id |-> fid, fault_type |-> fault,
              event_time_utc |-> t, source |-> src]},
        !.flight = [f \in DOMAIN @ |->
                       IF f = fid THEN [@[f] EXCEPT !.has_failure_gt = TRUE]
                       ELSE @[f]]]

\* DELETE FROM failure_event WHERE event_id = id, with the trigger
\* trg_failure_unflag_on_delete: a flight left without events loses its flag
DeleteFailureEvent(store, id) ==
    LET gone == {e \in store.failure_event : e.event_id = id}
        left == store.failure_event \ gone
    IN  [store EXCEPT
            !.failure_event = left,
            !.flight = [f \in DOMAIN @ |->
                IF /\ \E e \in gone : e.flight_id = f
                   /\ ~\E e \in left : e.flight_id = f
                THEN [@[f] EXCEPT !.has_failure_gt = FALSE]
                ELSE @[f]]]

\* the rows load_events_for_flight puts into events_tree (their iids)
EventIds(store, fid) ==
    {e.event_id : e \in {x \in store.failure_event : x.flight_id = fid}}

\* no report: self.last_report is None, or no file has been written
NoReport == [flight_id |-> "", has_failure_gt |-> FALSE, failures |-> 0,
             files_csv |-> Num(Zero)]

\* SELECT flight_report_json(fid): the store's report of one flight, with
\* the flight it is about, its flag, its failure count and its file count;
\* NULL for a flight the store does not hold
FlightReportJson(store, fid) ==
    IF fid \notin DOMAIN store.flight THEN NoReport
    ELSE [flight_id |-> fid,
          has_failure_gt |-> store.flight[fid].has_failure_gt,
          failures |-> Cardinality({e \in store.failure_event :
                                      e.flight_id = fid}),
          files_csv |-> store.flight[fid].files_csv]

\* fault types offered by the dialog (two of the four of line 840)
GuiFaults == {"engines", "rudder"}

\* the time the dialog proposes: the present moment
GuiNow == Ts(T2)

\* MainApp.__init__ on the empty store
GuiInit ==
    /\ current_flight_id = ""
    /\ flights_tree = {}
    /\ events_tree = {}
    /\ gui_ops = 0
    /\ last_report = NoReport
    /\ exported = NoReport

\* MainApp.load_flights (the refresh button), filters left empty
GuiLoadFlights ==
    /\ lpc = "idle"
    /\ flights_tree' = DOMAIN db.flight
    /\ UNCHANGED <<current_flight_id, events_tree, gui_ops, last_report,
                   exported>>
    /\ UNCHANGED <<guessVars, buildVars, loadVars>>

\* MainApp.on_flight_selected for a row of the flight list
OnFlightSelected ==
    /\ lpc = "idle"
    /\ \E f \in flights_tree :
          /\ current_flight_id' = f
          /\ events_tree' = EventIds(db, f)
    /\ UNCHANGED <<flights_tree, gui_ops, last_report, exported>>
    /\ UNCHANGED <<guessVars, buildVars, loadVars>>

\* MainApp.add_failure_event_gui, the dialog confirmed with a valid time
AddFailureEventGui ==
    /\ lpc = "idle"
    /\ current_flight_id # ""
    /\ gui_ops < MaxGuiOps
    /\ \E fault \in GuiFaults :
          db' = AddFailureEventProc(db, current_flight_id, fault, GuiNow,
                                    "gui", event_seq + 1)
    /\ event_seq' = event_seq + 1
    /\ events_tree' = EventIds(db', current_flight_id)
    /\ flights_tree' = DOMAIN db'.flight
    /\ gui_ops' = gui_ops + 1
    /\ UNCHANGED <<current_flight_id, last_report, exported, lpc, tx, ri,
                   rows_batch, total_inserted, total_skipped, batches,
                   loads>>
    /\ UNCHANGED <<guessVars, buildVars>>

\* MainApp.delete_selected_failure_event for a row of the event table,
\* the question answered yes
DeleteSelectedFailureEvent ==
    /\ lpc = "idle"
    /\ current_flight_id # ""
    /\ gui_ops < MaxGuiOps
    /\ \E event_id \in events_tree :
          db' = DeleteFailureEvent(db, event_id)
    /\ events_tree' = EventIds(db', current_flight_id)
    /\ flights_tree' = DOMAIN db'.flight
    /\ gui_ops' = gui_ops + 1
    /\ UNCHANGED <<current_flight_id, last_report, exported, lpc, tx,
                   event_seq, ri, rows_batch, total_inserted, total_skipped,
                   batches, loads>>
    /\ UNCHANGED <<guessVars, buildVars>>

\* MainApp.load_report (lines 722-762): the report of the selected flight
\* is asked of the store and kept for export; a NULL answer leaves none
LoadReport ==
    /\ lpc = "idle"
    /\ current_flight_id # ""
    /\ last_report' = FlightReportJson(db, current_flight_id)
    /\ UNCHANGED <<current_flight_id, flights_tree, events_tree, gui_ops,
                   exported>>
    /\ UNCHANGED <<guessVars, buildVars, loadVars>>

\* MainApp.export_report_json with a file name chosen: last_report is
\* written to the file
ExportReportJson ==
    /\ lpc = "idle"
    /\ last_report # NoReport
    /\ exported' = last_report
    /\ UNCHANGED <<current_flight_id, flights_tree, events_tree, gui_ops,
                   last_report>>
    /\ UNCHANGED <<guessVars, buildVars, loadVars>>

----------------------------------------------------------------------------
\* SpecGuess: one call of _to_datetime_guess on a bounded series

GuessNums ==
    { N(500), N(100000), N(100001), N(150000),
      <<0, 5, 0>>, <<0, 10, 0>>, <<0, 10, 1>>,
      <<0, 1000, 0>>, <<0, 1000, 1>>, <<0, 3000, 0>>,
      <<0, 100000, 0>>, <<0, 100000, 1>>, <<0, 2000000, 0>>,
      <<1, 500000000, 0>> }

GuessCells ==
    {Num(n) : n \in GuessNums} \cup {<<"empty", Zero>>, <<"text", Zero>>, PInf}

SeqsUpTo(S, k) == UNION {[1..m -> S] : m \in 0..k}

InitGuess ==
    /\ series \in SeqsUpTo(GuessCells, MaxLen)
    /\ u = "none"
    /\ result = <<>>
    /\ gpc = "ready"
    /\ BuildIdle
    /\ LoadIdle
    /\ GuiInit

\* no call of _to_datetime_guess is being observed
GuessIdle ==
    /\ series = <<>>
    /\ u = "none"
    /\ result = <<>>
    /\ gpc = "idle"

Guess ==
    /\ gpc = "ready"
    /\ u' = UnitOf(series)
    /\ result' = ToDatetimeGuess(series)
    /\ gpc' = "done"
    /\ UNCHANGED <<series, buildVars, loadVars, guiVars>>

vars == <<guessVars, buildVars, loadVars, guiVars>>

NextGuess == Guess

SpecGuess == InitGuess /\ [][NextGuess]_vars

----------------------------------------------------------------------------
\* SpecBuild: one run of main.py on a bounded tree

InitBuild == GuessIdle /\ BuildStart /\ LoadIdle /\ GuiInit

NextBuild ==
    \/ ProcessFile
    \/ ProcessFileCrash
    \/ ScanDone
    \/ Aggregate
    \/ AggregateCrash
    \/ Normalize

SpecBuild == InitBuild /\ [][NextBuild]_vars

----------------------------------------------------------------------------
\* SpecLoad: main.py on a tree, then runs of load_catalogs.py

\* the trees of SpecLoad: a failure file and a telemetry file of one
\* flight; the same with a copy of the telemetry file in a subdirectory;
\* an all-zero failure file and a second flight; a single failure file; a
\* tree whose only file has no usable time column
LoadTrees ==
    { (Paths[1] :> OnsetTable) @@ (Paths[2] :> TelemetryTable),
      (Paths[1] :> OnsetTable) @@ (Paths[2] :> TelemetryTable)
          @@ (Paths[3] :> TelemetryTable),
      (Paths[1] :> AllZeroTable) @@ (Paths[5] :> OnsetTable),
      (Paths[1] :> OnsetTable),
      (Paths[1] :> OnsetTable) @@ (Paths[2] :> StampedTable)
          @@ (Paths[4] :> FloatSignalTable),
      (Paths[6] :> ExampleTable) }

InitLoad ==
    /\ GuessIdle
    /\ csv_files \in {SortedFiles(t, 1) : t \in LoadTrees}
    /\ pc = "scan"
    /\ BuildBlank
    /\ LoadIdle
    /\ GuiInit

NextLoad ==
    \/ ProcessFile
    \/ ScanDone
    \/ Aggregate
    \/ AggregateCrash
    \/ Normalize
    \/ LoadBegin
    \/ LoadFlights
    \/ LoadFlightsMissing
    \/ LoadFileAssets
    \/ LoadFailureEvents
    \/ LoadTopicSchema
    \/ LoadSignalRow
    \/ LoadSignalsEnd
    \/ LoadCommit
    \/ LoadFail

SpecLoad == InitLoad /\ [][NextLoad]_vars

----------------------------------------------------------------------------
\* SpecReload: SpecLoad with main.py run again, between the loads, on a
\* tree that may have changed

\* the trees of SpecReload: a failure file and a telemetry file with the
\* same content; the two files with another content and a copy of the old
\* content under the path of another flight; a tree whose only file has
\* no usable time column
ReloadTrees ==
    { (Paths[1] :> OnsetTable) @@ (Paths[2] :> OnsetTable),
      (Paths[1] :> FloatSignalTable) @@ (Paths[2] :> FloatSignalTable)
          @@ (Paths[5] :> OnsetTable),
      (Paths[6] :> ExampleTable) }

InitReload ==
    /\ GuessIdle
    /\ csv_files \in {SortedFiles(t, 1) : t \in ReloadTrees}
    /\ pc = "scan"
    /\ BuildBlank
    /\ LoadIdle
    /\ GuiInit

\* the script main.py started again (lines 248-255): a new processor on
\* the tree as it is now; the files of out/alfa_catalog stay as they are
\* until this run writes them
RunAgain ==
    /\ pc \in {"done", "crashed"}
    /\ lpc = "idle"
    /\ loads < MaxLoads
    /\ csv_files' \in {SortedFiles(t, 1) : t \in ReloadTrees}
    /\ pc' = "scan"
    /\ fi' = 1
    /\ file_rows' = <<>>
    /\ failure_rows' = <<>>
    /\ topic_schemas' = <<>>
    /\ flight_bounds' = <<>>
    /\ flight_rows' = <<>>
    /\ signal_data' = <<>>
    /\ UNCHANGED <<out, signal_csv>>
    /\ UNCHANGED <<guessVars, loadVars, guiVars>>

NextReload ==
    \/ ProcessFile
    \/ ScanDone
    \/ Aggregate
    \/ AggregateCrash
    \/ Normalize
    \/ RunAgain
    \/ LoadBegin
    \/ LoadFlights
    \/ LoadFlightsMissing
    \/ LoadFileAssets
    \/ LoadFailureEvents
    \/ LoadTopicSchema
    \/ LoadSignalRow
    \/ LoadSignalsEnd
    \/ LoadCommit
    \/ LoadFail

SpecReload == InitReload /\ [][NextReload]_vars

----------------------------------------------------------------------------
\* SpecPermute: the loop of _process_csv_files and process_data run over
\* the files of a tree taken in any order, the order being an input

PermContents ==
    {OnsetTable, AllZeroTable, TimeNamedTable, FloatSignalTable,
     UnparsedTable}

\* the trees over the three files of flightA
PermTrees ==
    UNION { [P -> PermContents] :
            P \in SUBSET {Paths[1], Paths[2], Paths[3]} \ {{}} }

\* the orders of a sequence
Orders(q) ==
    { [i \in 1..Len(q) |-> q[p[i]]] :
        p \in {x \in [1..Len(q) -> 1..Len(q)] :
                  \A i, j \in 1..Len(q) : x[i] = x[j] => i = j} }

InitPermute ==
    /\ GuessIdle
    /\ csv_files \in UNION {Orders(SortedFiles(t, 1)) : t \in PermTrees}
    /\ pc = "scan"
    /\ BuildBlank
    /\ LoadIdle
    /\ GuiInit

NextPermute ==
    \/ ProcessFile
    \/ ScanDone
    \/ Aggregate
    \/ AggregateCrash
    \/ Normalize

SpecPermute == InitPermute /\ [][NextPermute]_vars

----------------------------------------------------------------------------
\* SpecGui: SpecLoad with the presentation layer at work between the loads

InitGui == InitLoad

NextGui ==
    \/ ProcessFile
    \/ ScanDone
    \/ Aggregate
    \/ AggregateCrash
    \/ Normalize
    \/ LoadBegin
    \/ LoadFlights
    \/ LoadFlightsMissing
    \/ LoadFileAssets
    \/ LoadFailureEvents
    \/ LoadTopicSchema
    \/ LoadSignalRow
    \/ LoadSignalsEnd
    \/ LoadCommit
    \/ LoadFail
    \/ GuiLoadFlights
    \/ OnFlightSelected
    \/ AddFailureEventGui
    \/ DeleteSelectedFailureEvent
    \/ LoadReport
    \/ ExportReportJson

SpecGui == InitGui /\ [][NextGui]_vars

----------------------------------------------------------------------------
\* Properties of the Failure Event Extractor (SpecBuild)

\* the files whose loop iteration is over
Processed == {k \in 1..Len(csv_files) : k < fi}

\* the file's name matches failure_status-<kind>.csv and the file parses
GtFile(k) ==
    /\ FailureKind(Stem(csv_files[k])) # ""
    /\ csv_files[k].content.readable
    /\ csv_files[k].content.full_ok

ColsOf(k) == csv_files[k].content.cols
RowsOf(k) == csv_files[k].content.rows

\* positions of the columns that are not recognized time columns
SignalCols(k) ==
    {c \in 1..Len(ColsOf(k)) : ColsOf(k)[c] \notin SeqRange(TimeNames)}

\* position of the signal column: the first of them
SignalCol(k) == CHOOSE c \in SignalCols(k) : \A d \in SignalCols(k) : c <= d

\* positions of the recognized time columns
TimeCols(k) ==
    {c \in 1..Len(ColsOf(k)) : ColsOf(k)[c] \in SeqRange(TimeNames)}

\* the signal of file k is non-zero at row i and zero before it
OnsetAt(k, i) ==
    /\ SignalCols(k) # {}
    /\ i \in 1..Len(RowsOf(k))
    /\ RowsOf(k)[i][SignalCol(k)] \notin {Num(Zero), Cell("empty")}
    /\ \A j \in 1..(i - 1) :
          RowsOf(k)[j][SignalCol(k)] \in {Num(Zero), Cell("empty")}

\* the failure events recorded for file k
EventsOf(k) ==
    {e \in 1..Len(failure_rows) :
        /\ failure_rows[e].FailFile = Stem(csv_files[k])
        /\ failure_rows[e].FlightID = FlightIdFor(csv_files[k])}

\* t is the instant the number n denotes in one of the four units
Denotes(t, n) ==
    \E un \in {"ns", "us", "ms", "s"} :
        /\ un = "s" => n[1] = 0
        /\ t = Ts(ToNs(n, un))

\* C7: a failure_status-<kind>.csv file whose signal first leaves zero at
\* row i and which has a recognized time column yields exactly one event,
\* of fault type <kind>, whose onset is the instant of the time value of
\* row i (signal [0,0,3,0] over times [100,200,300,400]: one 'engine'
\* event at 300).
C7_OnsetOfFirstNonZero ==
    \A k \in Processed : \A i \in 1..Len(RowsOf(k)) :
        (GtFile(k) /\ OnsetAt(k, i) /\ TimeCols(k) # {}) =>
            /\ Cardinality(EventsOf(k)) = 1
            /\ \A e \in EventsOf(k) :
                  /\ failure_rows[e].FaultType =
                        FailureKind(Stem(csv_files[k]))
                  /\ \E c \in TimeCols(k) :
                        /\ RowsOf(k)[i][c][1] = "num"
                        /\ Denotes(failure_rows[e].EventTimeUTC,
                                   RowsOf(k)[i][c][2])

\* C8: a file of the failure name pattern that has no signal column, or
\* that does not parse, yields no failure event: its iteration leaves
\* failure_rows as it was.
C8_NoEventWithoutSignal ==
    \A k \in Processed :
        (/\ FailureKind(Stem(csv_files[k])) # ""
         /\ csv_files[k].content.readable
         /\ ~csv_files[k].content.full_ok \/ SignalCols(k) = {}) =>
            EventsOf(k) = {}

\* C9: a file of the failure name pattern whose signal column is zero
\* throughout yields no failure event, while its file record is emitted.
C9_NoEventForAllZero ==
    \A k \in Processed :
        (/\ GtFile(k)
         /\ SignalCols(k) # {}
         /\ \A i \in 1..Len(RowsOf(k)) : ~OnsetAt(k, i)) =>
            /\ EventsOf(k) = {}
            /\ \E r \in 1..Len(file_rows) :
                  file_rows[r].FilePath = csv_files[k].parts

\* the file rows of the file a failure row was taken from
SourceRows(e) ==
    {i \in 1..Len(file_rows) :
        /\ file_rows[i].FlightID = e.FlightID
        /\ file_rows[i].TopicName = e.FailFile}

\* C25: a failure row with a defined onset has its onset inside the span
\* recorded for its source file: TimeMinUTC <= EventTimeUTC <= TimeMaxUTC.
C25_OnsetWithinFileSpan ==
    \A n \in 1..Len(failure_rows) :
        LET e == failure_rows[n]
        IN  e.EventTimeUTC[1] = "ts" =>
                \A i \in SourceRows(e) :
                    /\ file_rows[i].TimeMinUTC[1] = "ts"
                    /\ file_rows[i].TimeMaxUTC[1] = "ts"
                    /\ Leq(file_rows[i].TimeMinUTC[2], e.EventTimeUTC[2])
                    /\ Leq(e.EventTimeUTC[2], file_rows[i].TimeMaxUTC[2])

----------------------------------------------------------------------------
\* Properties of the Flight Aggregator (SpecBuild)

\* the file rows of flight fid that carry a known span
SpannedFiles(fid) ==
    {i \in 1..Len(file_rows) :
        /\ file_rows[i].FlightID = fid
        /\ file_rows[i].TimeMinUTC[1] = "ts"}

\* x + y on limbs
AddN(x, y) ==
    LET c  == x[3] + y[3]
        k0 == IF c >= 1000000000 THEN 1 ELSE 0
        b  == x[2] + y[2] + k0
        k1 == IF b >= 1000000000 THEN 1 ELSE 0
    IN  <<x[1] + y[1] + k1, b - k1 * 1000000000, c - k0 * 1000000000>>

\* <<lo, hi>> is [least low, greatest high] of the spanned files of fid
IsHull(fid, lo, hi) ==
    /\ SpannedFiles(fid) # {}
    /\ \E i \in SpannedFiles(fid) : file_rows[i].TimeMinUTC = lo
    /\ \E i \in SpannedFiles(fid) : file_rows[i].TimeMaxUTC = hi
    /\ \A i \in SpannedFiles(fid) :
          /\ Leq(lo[2], file_rows[i].TimeMinUTC[2])
          /\ Leq(file_rows[i].TimeMaxUTC[2], hi[2])

\* C12: the running span of a flight is at every moment the least low and
\* the greatest high of the spans of its files processed so far (the first
\* span is taken verbatim), and a flight row carries that span with the
\* duration hi - lo in seconds.
C12_FlightSpan ==
    /\ \A fid \in DOMAIN flight_bounds :
          IsHull(fid, flight_bounds[fid][1], flight_bounds[fid][2])
    /\ \A r \in 1..Len(flight_rows) :
          /\ IsHull(flight_rows[r].FlightID, flight_rows[r].StartUTC,
                    flight_rows[r].EndUTC)
          /\ flight_rows[r].DurationSec[1] = "num"
          \* seconds s.n held as <<s_hi, s_lo, n>> are the nanoseconds
          /\ AddN(flight_rows[r].StartUTC[2],
                  flight_rows[r].DurationSec[2]) = flight_rows[r].EndUTC[2]

\* a flight row built from two files with the spans [T0,T1] and [T1,T2]
C12_Witness ==
    \E r \in 1..Len(flight_rows) :
        /\ flight_rows[r].StartUTC = Ts(T0)
        /\ flight_rows[r].EndUTC = Ts(T2)
        /\ flight_rows[r].DurationSec = Num(<<0, 2, 0>>)
        /\ \E i, j \in SpannedFiles(flight_rows[r].FlightID) :
              /\ file_rows[i].TimeMinUTC = Ts(T1)
              /\ file_rows[i].TimeMaxUTC = Ts(T2)
              /\ file_rows[j].TimeMinUTC = Ts(T0)
              /\ file_rows[j].TimeMaxUTC = Ts(T1)
              /\ i < j

\* process_data has built the flight rows
Aggregated ==
    pc \in {"signals", "done"} \/ (pc = "crashed" /\ fi > Len(csv_files))

\* the flight rows of identifier fid
FlightRowsOf(fid) ==
    {r \in 1..Len(flight_rows) : flight_rows[r].FlightID = fid}

\* C18: the flight rows are one for each flight identifier with a file of
\* known span and none for any other; a row's file count is the number of
\* file rows with its identifier and its failure flag says whether a
\* failure row with its identifier was recorded in this run; a written
\* flights catalog holds these rows.
C18_FlightRecords ==
    Aggregated =>
        /\ \A fid \in {file_rows[i].FlightID : i \in 1..Len(file_rows)} :
              Cardinality(FlightRowsOf(fid)) =
                  IF SpannedFiles(fid) # {} THEN 1 ELSE 0
        /\ \A r \in 1..Len(flight_rows) :
              /\ SpannedFiles(flight_rows[r].FlightID) # {}
              /\ flight_rows[r].FilesCSV =
                    Cardinality({i \in 1..Len(file_rows) :
                        file_rows[i].FlightID = flight_rows[r].FlightID})
              /\ flight_rows[r].HasFailureGT <=>
                    \E e \in 1..Len(failure_rows) :
                        failure_rows[e].FlightID = flight_rows[r].FlightID
        /\ out.written =>
              /\ Len(out.flights) = Len(flight_rows)
              /\ \A r \in 1..Len(flight_rows) :
                    out.flights[r] = CsvFlight(flight_rows[r])

\* a flight of two files, one of them without a known span, with its
\* failure row, written to the catalog
C18_Witness ==
    /\ pc = "done"
    /\ out.written
    /\ \E r \in 1..Len(flight_rows) :
          /\ flight_rows[r].FilesCSV = 2
          /\ flight_rows[r].HasFailureGT
          /\ Cardinality(SpannedFiles(flight_rows[r].FlightID)) = 1

\* a flight identifier whose files have no known span and so no flight row,
\* beside a flight without failure rows
C18_WitnessNoSpan ==
    /\ Aggregated
    /\ \E i \in 1..Len(file_rows) : FlightRowsOf(file_rows[i].FlightID) = {}
    /\ \E r \in 1..Len(flight_rows) : ~flight_rows[r].HasFailureGT

\* the files with a parsed header that carry topic t and column c
Observers(t, c) ==
    {k \in 1..Len(csv_files) :
        /\ HeadParsed(csv_files[k])
        /\ Stem(csv_files[k]) = t
        /\ c \in SeqRange(ColsOf(k))}

\* the (topic, column) pairs observed in a file with a parsed header
ObservedKeys ==
    UNION { {<<Stem(csv_files[k]), ColsOf(k)[p]>> :
                p \in 1..Len(ColsOf(k))} :
            k \in {x \in 1..Len(csv_files) : HeadParsed(csv_files[x])} }

\* the type inferred for column c from the head of file k
HeadType(k, c) == DType(Column(ColsOf(k), HeadOf(RowsOf(k)), c))

\* C20: at the end of the scan the schema registry has one entry for each
\* (topic, column) observed in a file with a parsed header and no other,
\* and the entry's type set is the union of the types inferred for the
\* column in the files of that topic name, whatever their flight; a written
\* schema catalog has one row per entry with these types.
C20_SchemaIsUnion ==
    (pc # "scan" /\ fi > Len(csv_files)) =>
        /\ DOMAIN topic_schemas = ObservedKeys
        /\ \A key \in DOMAIN topic_schemas :
              topic_schemas[key] =
                  {HeadType(k, key[2]) : k \in Observers(key[1], key[2])}
        /\ out.written =>
              /\ DOMAIN out.schema = DOMAIN topic_schemas
              /\ \A key \in DOMAIN out.schema :
                    /\ SeqRange(out.schema[key]) = topic_schemas[key]
                    /\ Len(out.schema[key]) =
                           Cardinality(topic_schemas[key])

\* two files of one topic name in two flights, their columns read with
\* different types, folded into one entry
C20_Witness ==
    /\ pc # "scan"
    /\ Len(csv_files) = 2
    /\ fi > Len(csv_files)
    /\ csv_files[1] = [parts |-> Paths[2], content |-> OnsetTable]
    /\ csv_files[2] = [parts |-> Paths[4], content |-> FloatSignalTable]
    /\ topic_schemas[<<"a-mavros-imu", "field.data">>] =
           {"int64", "float64"}
    /\ topic_schemas[<<"a-mavros-imu", "%time">>] = {"int64"}

\* the file cannot be opened, or no delimiter parses its header
BadFile(k) == ~HeadParsed(csv_files[k])

\* C13: a corrupted or unreadable file among valid files does not end the
\* run: once the scan is left, every file of the tree has its file row, in
\* the order of the scan; the row of a valid file carries its row count and
\* its columns, the row of the bad file an undefined row count or no
\* columns.
C13_BadFileDoesNotAbort ==
    (/\ pc # "scan"
     /\ \E k \in 1..Len(csv_files) : BadFile(k)
     /\ \E k \in 1..Len(csv_files) : ~BadFile(k)) =>
        /\ Len(file_rows) = Len(csv_files)
        /\ \A k \in 1..Len(csv_files) :
              /\ file_rows[k].FilePath = csv_files[k].parts
              /\ IF BadFile(k)
                 THEN file_rows[k].Rows = None \/ file_rows[k].Cols = 0
                 ELSE /\ file_rows[k].Rows = Num(N(Len(RowsOf(k))))
                      /\ file_rows[k].Cols = Len(ColsOf(k))

\* the identifier the path rule gives a file: the first segment below the
\* root for a file in a subdirectory, the base name for a file at the root
PathIdentifier(parts) ==
    IF Len(parts) > 1 THEN Head(parts) ELSE parts[Len(parts)]

\* the file rows recorded for the file at parts
RecordsOf(parts) ==
    {i \in 1..Len(file_rows) : file_rows[i].FilePath = parts}

\* C21: when the scan is left, every discovered file has exactly one file
\* row, and the row carries the identifier the path rule gives the file.
C21_OneRecordWithPathIdentifier ==
    pc # "scan" =>
        \A k \in 1..Len(csv_files) :
            /\ Cardinality(RecordsOf(csv_files[k].parts)) = 1
            /\ \A i \in RecordsOf(csv_files[k].parts) :
                  file_rows[i].FlightID = PathIdentifier(csv_files[k].parts)

\* the flight identifiers of the rows of a written catalog
IdsOf(catalog) == {catalog[i].FlightID : i \in 1..Len(catalog)}

\* C26: in the catalogs a run writes, every flight identifier of a file
\* row or of a failure row is the identifier of a flight row.
C26_EveryFlightIdHasFlightRow ==
    out.written =>
        IdsOf(out.files) \cup IdsOf(out.failures) \subseteq IdsOf(out.flights)

\* every file of the tree can be opened
ReadableRoot ==
    \A k \in 1..Len(csv_files) : csv_files[k].content.readable

\* C27: over a tree whose files can all be opened, process_data does not
\* end in an exception, and once it has ended the four catalogs are
\* written, an empty collection giving an empty catalog.
C27_CatalogsAlwaysWritten ==
    ReadableRoot =>
        /\ pc # "crashed"
        /\ pc \in {"signals", "done"} =>
              /\ out.written
              /\ Len(out.flights) = Len(flight_rows)
              /\ Len(out.files) = Len(file_rows)
              /\ Len(out.failures) = Len(failure_rows)

----------------------------------------------------------------------------
\* Properties of the scan as a fold (SpecPermute)

\* the files of csv_files in the order sorted() gives them
InSortedOrder ==
    SortedFiles([p \in {csv_files[i].parts : i \in 1..Len(csv_files)} |->
                    csv_files[CHOOSE i \in 1..Len(csv_files) :
                                  csv_files[i].parts = p].content], 1)

\* the flights-catalog row of fid for the bounds B, from the set of files
CatalogRow(fid, B) ==
    CsvFlight(
        [FlightID |-> fid,
         FilesCSV |-> Cardinality({i \in 1..Len(csv_files) :
                                     FlightIdFor(csv_files[i]) = fid}),
         HasFailureGT |-> \E i \in 1..Len(csv_files) :
                             /\ FlightIdFor(csv_files[i]) = fid
                             /\ FailureKind(Stem(csv_files[i])) # "",
         StartUTC |-> B[fid][1], EndUTC |-> B[fid][2],
         DurationSec |-> Num(SubN(B[fid][2][2], B[fid][1][2]))])

\* C19: whatever the order the files are processed in, the flight spans
\* and the topic schema at the end of the scan are those the sorted order
\* gives, and so are the flights catalog and the topic-schema catalog with
\* each type set in sorted order.
C19_OrderIndependent ==
    fi > Len(csv_files) =>
        LET B == ScanBounds(InSortedOrder)
            S == ScanSchema(InSortedOrder)
        IN  /\ flight_bounds = B
            /\ topic_schemas = S
            /\ out.written =>
                  /\ DOMAIN out.schema = DOMAIN S
                  /\ \A k \in DOMAIN S : out.schema[k] = SortedSet(S[k])
                  /\ {out.flights[r].FlightID : r \in 1..Len(out.flights)}
                        = DOMAIN B
                  /\ Len(out.flights) = Cardinality(DOMAIN B)
                  /\ \A r \in 1..Len(out.flights) :
                        out.flights[r] =
                            CatalogRow(out.flights[r].FlightID, B)

\* three files processed in the reverse of the sorted order, their spans
\* and the types of a shared topic merged, the catalogs written
C19_Witness ==
    /\ pc = "done"
    /\ out.written
    /\ Len(csv_files) = 3
    /\ csv_files[1] = [parts |-> Paths[3], content |-> TimeNamedTable]
    /\ csv_files[2] = [parts |-> Paths[2], content |-> FloatSignalTable]
    /\ csv_files[3] = [parts |-> Paths[1], content |-> AllZeroTable]
    /\ flight_bounds["flightA"] = <<Ts(T0), Ts(T2)>>
    /\ topic_schemas[<<"a-mavros-imu", "field.data">>] =
           {"int64", "float64"}
    /\ out.schema[<<"a-mavros-imu", "field.data">>] =
           <<"float64", "int64">>

----------------------------------------------------------------------------
\* Properties of the bulk load (SpecLoad)

\* rows per table of a store
RowCounts(store) ==
    <<Cardinality(DOMAIN store.flight), Cardinality(DOMAIN store.file_asset),
      Cardinality(store.failure_event),
      Cardinality(DOMAIN store.topic_schema),
      Cardinality(DOMAIN store.signal)>>

\* C1: the pipeline run a second time over the unchanged tree adds no row
\* to any table: a commit that follows an earlier commit leaves every row
\* count as it was.  (main.py rewrites the same catalog files on the second
\* run, so the catalogs on disk stand for both runs.)
C1_SecondRunAddsNothing ==
    [][(lpc = "commit" /\ lpc' = "idle" /\ db # EmptyDb) =>
          RowCounts(db') = RowCounts(db)]_vars

\* the tuples of every batch the sink has executed in the last load
Submitted ==
    UNION { {batches[b][i] : i \in 1..Len(batches[b])} :
            b \in 1..Len(batches) }

\* C2: a batch of samples once written stays in the store: when the load
\* is over, however it ended, the store holds a row for every tuple of
\* every batch it had the sink execute.
C2_WrittenBatchesStay ==
    lpc = "idle" =>
        \A t \in Submitted : SignalKey(t) \in DOMAIN db.signal

\* C3: no sample whose value is empty, not-a-number or infinite is handed
\* to the sink: every value in a batch is a finite number.
C3_OnlyFiniteSubmitted ==
    \A t \in Submitted : t.value[1] = "num"

\* the files the normalizer expands: name, parse, time column
Expanded ==
    {k \in 1..Len(csv_files) :
        /\ IsMavros(Stem(csv_files[k]))
        /\ csv_files[k].content.readable /\ csv_files[k].content.full_ok
        /\ \E c \in 1..Len(ColsOf(k)) :
              ColsOf(k)[c] \in SeqRange(SignalTimeNames)}

\* R x C summed over a set of files
RECURSIVE CellCount(_)
CellCount(K) ==
    IF K = {} THEN 0
    ELSE LET k == CHOOSE x \in K : TRUE
         IN  Len(RowsOf(k)) * Cardinality(SignalCols(k))
                 + CellCount(K \ {k})

\* C4: files of R rows and C non-time columns yield at most R x C samples
\* each, and the first load into an empty store leaves exactly R x C minus
\* the dropped values stored: no valid sample is lost.
C4_StoredIsCellsMinusDropped ==
    (lpc = "idle" /\ loads = 1 /\ db # EmptyDb) =>
        /\ Len(signal_csv.rows) <= CellCount(Expanded)
        /\ Cardinality(DOMAIN db.signal) =
              CellCount(Expanded) - total_skipped

\* the order in which main() calls the loaders, and the ways out of it
LoaderOrder ==
    {<<"idle", "flights">>, <<"flights", "files">>, <<"files", "failures">>,
     <<"failures", "schema">>, <<"schema", "signals">>,
     <<"signals", "commit">>, <<"commit", "idle">>}

LoaderAborts ==
    {<<s, "idle">> : s \in {"flights", "files", "failures", "schema",
                            "signals"}}

\* a store after the sink has executed the batches bs, in order
RECURSIVE AfterBatches(_, _)
AfterBatches(store, bs) ==
    IF bs = <<>> THEN store
    ELSE AfterBatches(InsertSignals(store, Head(bs)), Tail(bs))

\* what the five loaders write over a store, in the order of main(); ids
\* is the number of event ids the failure events of this load took
AllFiveOver(store, bs, ids) ==
    AfterBatches(
        UpsertTopicSchema(
            InsertFailureEvents(
                InsertFileAssets(UpsertFlights(store, out.flights),
                                 out.files),
                out.failures, ids),
            out.schema),
        bs)

\* C22: the load is all-or-nothing.  The loaders run in the order flights,
\* file assets, failure events, topic schema, signals; the committed store
\* changes in no step but the commit, which is reached only after the
\* fifth loader and installs what the five wrote over the store the load
\* started from; a load that is left by an exception leaves the committed
\* store as it was.
C22_AllOrNothing ==
    [][/\ lpc' # lpc => <<lpc, lpc'>> \in LoaderOrder \cup LoaderAborts
       /\ db' # db => lpc = "commit" /\ lpc' = "idle"
       /\ (lpc = "commit" /\ lpc' = "idle") =>
             db' = AllFiveOver(db, batches,
                               event_seq - Len(out.failures))
       /\ <<lpc, lpc'>> \in LoaderAborts => db' = db /\ tx' = db]_vars

\* a second load left by an exception in load_signals after a batch had
\* been executed, over a store a first load committed
C22_Witness ==
    /\ lpc = "idle"
    /\ loads = 2
    /\ db # EmptyDb
    /\ tx = db
    /\ signal_csv.written
    /\ batches # <<>>
    /\ ri <= Len(signal_csv.rows)

\* the rows of signal_data.csv the loop of load_signals has read
RowsRead == IF signal_csv.written THEN ri - 1 ELSE 0

\* the tuples of the first n rows of signal_data.csv that are not skipped,
\* in the order of the file
RECURSIVE KeptUpTo(_)
KeptUpTo(n) ==
    IF n = 0 THEN <<>>
    ELSE IF SignalSkipped(signal_csv.rows[n]) THEN KeptUpTo(n - 1)
         ELSE Append(KeptUpTo(n - 1), SignalTuple(signal_csv.rows[n]))

\* the executed batches laid end to end
RECURSIVE Flat(_)
Flat(bs) == IF bs = <<>> THEN <<>> ELSE Head(bs) \o Flat(Tail(bs))

\* C23: every row load_signals has read is accounted for exactly once: the
\* skipped rows are counted in total_skipped, and the other rows are, in
\* the order of the file and each once, the executed batches followed by
\* the pending batch; the pending batch stays below batch_size between
\* rows, every executed batch but a last remainder has batch_size rows,
\* and when load_signals returns nothing is pending and total_inserted +
\* total_skipped is the number of rows of the file.
C23_EveryRowAccountedOnce ==
    /\ RowsRead <= Len(signal_csv.rows)
    /\ total_skipped = RowsRead - Len(KeptUpTo(RowsRead))
    /\ total_inserted = Len(Flat(batches))
    /\ \A b \in 1..Len(batches) :
          /\ Len(batches[b]) \in 1..batch_size
          /\ b < Len(batches) => Len(batches[b]) = batch_size
    /\ lpc = "signals" =>
          /\ Flat(batches) \o rows_batch = KeptUpTo(RowsRead)
          /\ Len(rows_batch) < batch_size
          /\ \A b \in 1..Len(batches) : Len(batches[b]) = batch_size
    /\ lpc = "commit" =>
          /\ RowsRead = Len(signal_csv.rows)
          /\ Flat(batches) = KeptUpTo(RowsRead)
          /\ total_inserted + total_skipped = RowsRead

\* load_signals has returned after skipping a row, executing two batches
\* or more and flushing a remainder shorter than a batch
C23_Witness ==
    /\ lpc = "commit"
    /\ total_skipped > 0
    /\ Len(batches) >= 2
    /\ Len(batches[Len(batches)]) < batch_size
    /\ total_inserted + total_skipped = Len(signal_csv.rows)

\* C24: every sample handed to the sink has a defined timestamp: no tuple
\* of an executed batch has an empty ts.
C24_SubmittedHaveTimestamp ==
    \A t \in Submitted : t.ts[1] = "ts"

----------------------------------------------------------------------------
\* Properties of the store under loads and GUI operations (SpecGui)

\* C10: in the committed store, whatever loads, additions and deletions
\* came before, a flight's failure flag is true if and only if a failure
\* event is stored for that flight.
C10_FlagIffEvent ==
    \A f \in DOMAIN db.flight :
        db.flight[f].has_failure_gt <=>
            \E e \in db.failure_event : e.flight_id = f

\* C28: after any selections, report loads and exports, the report kept
\* for export is absent or is a report generated for the flight that is
\* selected now.
C28_ReportOfSelectedFlight ==
    last_report # NoReport => last_report.flight_id = current_flight_id

----------------------------------------------------------------------------
\* Properties of the Telemetry Normalizer (SpecBuild)

\* C16: the samples the normalizer holds in memory stay within a fixed
\* batch: the list signal_data never holds the whole rows x channels
\* expansion of a file that is larger than one batch.
C16_BoundedWorkingSet ==
    \A k \in Expanded :
        CellCount({k}) > batch_size => Len(signal_data) < CellCount({k})

\* the telemetry files of flight f that parse and have a recognized time
\* column
TelemetryFiles(f) ==
    {k \in 1..Len(csv_files) :
        /\ IsMavros(Stem(csv_files[k]))
        /\ FlightIdFor(csv_files[k]) = f
        /\ FullParsed(csv_files[k])
        /\ TimeCols(k) # {}}

\* the rows of the files of K that have c as a non-time column
RECURSIVE RowsWith(_, _)
RowsWith(K, c) ==
    IF K = {} THEN 0
    ELSE LET k == CHOOSE x \in K : TRUE
         IN  (IF \E p \in SignalCols(k) : ColsOf(k)[p] = c
              THEN Len(RowsOf(k)) ELSE 0) + RowsWith(K \ {k}, c)

\* the converted timestamp of row i of file k
RowTime(k, i) ==
    ToDatetimeGuess(Column(ColsOf(k), RowsOf(k),
                           FirstIn(TimeNames, ColsOf(k))))[i]

AllColumns == UNION {SeqRange(ColsOf(k)) : k \in 1..Len(csv_files)}

\* C17: when the normalizer has run, the samples of a flight on a channel
\* are as many as the rows of the flight's telemetry files that have the
\* channel as a non-time column (none for a recognized time column), and
\* each such row and column has its sample with the row's converted
\* timestamp and the column's value.
C17_OneSamplePerCell ==
    pc = "done" =>
        /\ \A f \in {FlightIdFor(csv_files[k]) : k \in 1..Len(csv_files)} :
           \A c \in AllColumns :
              Cardinality({s \in 1..Len(signal_data) :
                              /\ signal_data[s].flight_id = f
                              /\ signal_data[s].channel = c}) =
                  RowsWith(TelemetryFiles(f), c)
        /\ \A k \in 1..Len(csv_files) :
              k \in TelemetryFiles(FlightIdFor(csv_files[k])) =>
                 \A i \in 1..Len(RowsOf(k)) : \A p \in SignalCols(k) :
                    \E s \in 1..Len(signal_data) :
                       /\ signal_data[s].flight_id =
                              FlightIdFor(csv_files[k])
                       /\ signal_data[s].channel = ColsOf(k)[p]
                       /\ signal_data[s].ts = RowTime(k, i)
                       /\ signal_data[s].value =
                              CsvValue(RowsOf(k)[i][p],
                                       DType(Column(ColsOf(k), RowsOf(k),
                                                    ColsOf(k)[p])))

----------------------------------------------------------------------------
\* Properties of loads that follow a new run of main.py (SpecReload)

\* C14: a load of a schema entry whose (topic, column) is stored already
\* leaves the stored types the union of the stored and the loaded ones: no
\* step loses a stored type, and a commit stores for each loaded key the
\* loaded types joined with those stored before.
C14_TypesUnionAcrossLoads ==
    [][\A k \in DOMAIN db.topic_schema :
          /\ k \in DOMAIN db'.topic_schema
          /\ SeqRange(db.topic_schema[k]) \subseteq
                 SeqRange(db'.topic_schema[k])
          /\ (lpc = "commit" /\ lpc' = "idle" /\ k \in DOMAIN out.schema) =>
                 SeqRange(db'.topic_schema[k]) =
                     SeqRange(db.topic_schema[k]) \cup
                     SeqRange(out.schema[k])]_vars

\* C15: a stored file record (keyed by content hash) and a stored sample
\* (keyed by flight, timestamp, channel) keep every field through every
\* later step: a loaded record with a stored key is skipped.
C15_FirstWriterWins ==
    [][/\ \A k \in DOMAIN db.file_asset :
             /\ k \in DOMAIN db'.file_asset
             /\ db'.file_asset[k] = db.file_asset[k]
       /\ \A k \in DOMAIN db.signal :
             /\ k \in DOMAIN db'.signal
             /\ db'.signal[k] = db.signal[k]]_vars

\* a load has committed the new content while the old content, loaded
\* again under a new path, keeps its stored path, and a sample loaded again
\* with another value keeps its stored value
C15_Witness ==
    LET old == <<OnsetTable.cols, OnsetTable.rows>>
        new == <<FloatSignalTable.cols, FloatSignalTable.rows>>
        key == <<"flightA", Ts(T1), "field.data">>
    IN  /\ lpc = "idle"
        /\ {old, new} \subseteq DOMAIN db.file_asset
        /\ db.file_asset[old].path = Paths[1]
        /\ \E i \in 1..Len(out.files) :
              out.files[i].MD5 = old /\ out.files[i].FilePath = Paths[5]
        /\ key \in DOMAIN db.signal
        /\ db.signal[key] = Num(N(5))
        /\ \E i \in 1..Len(signal_csv.rows) :
              /\ SignalKey(signal_csv.rows[i]) = key
              /\ signal_csv.rows[i].value = Num(N(2))

----------------------------------------------------------------------------
\* Properties of deletion and reload (SpecGui)

\* the events stored for flight f
StoredEvents(store, f) == {e \in store.failure_event : e.flight_id = f}

\* some failure-named file of flight f carries a signal that leaves zero
GtYieldsEvent(f) ==
    \E k \in 1..Len(csv_files) :
        /\ GtFile(k)
        /\ FlightIdFor(csv_files[k]) = f
        /\ \E i \in 1..Len(RowsOf(k)) : OnsetAt(k, i)

\* C11: a step that removes the last stored event of a flight leaves the
\* flight's flag false, and a bulk load that finds a flight without events
\* and without flag, and whose ground-truth files yield no event, commits
\* with the flag still false: no stale flag is raised again.
C11_NoStaleFlag ==
    [][\A f \in DOMAIN db.flight :
          /\ (StoredEvents(db, f) # {} /\ StoredEvents(db', f) = {})
                => ~db'.flight[f].has_failure_gt
          /\ (/\ lpc = "commit" /\ lpc' = "idle"
              /\ StoredEvents(db, f) = {}
              /\ ~db.flight[f].has_failure_gt
              /\ ~GtYieldsEvent(f))
                => ~db'.flight[f].has_failure_gt]_vars

----------------------------------------------------------------------------
\* Properties of _to_datetime_guess (SpecGuess)

\* the entries of the argument that are valid numbers (or an infinity)
ValidIdx == {i \in 1..Len(series) : series[i][1] \in {"num", "inf"}}

\* entry i is a maximum among the valid entries
IsMaxIdx(i) ==
    /\ i \in ValidIdx
    /\ \A j \in ValidIdx :
          \/ series[i][1] = "inf"
          \/ series[j][1] = "num" /\ Leq(series[j][2], series[i][2])

\* x > t for a valid entry x and a threshold t
Above(x, t) == x[1] = "inf" \/ Less(t, x[2])

AllUndefined == \A i \in 1..Len(result) : result[i] = NaT

\* the maximum valid value of the argument is the number n
MaxIs(n) ==
    \E i \in 1..Len(series) : series[i] = Num(n) /\ IsMaxIdx(i)

\* C5: the unit depends only on the maximum valid value mx of the input,
\* non-numeric and missing entries being ignored: mx > 1e14 nanoseconds,
\* else mx > 1e12 microseconds, else mx > 1e10 milliseconds, else mx > 1e5
\* seconds, else (also when nothing is valid) every output is undefined;
\* the output is as long as the input.
C5_UnitFromMax ==
    gpc = "done" =>
        /\ Len(result) = Len(series)
        /\ ValidIdx = {} => u = "none" /\ AllUndefined
        /\ \A i \in 1..Len(series) : IsMaxIdx(i) =>
              LET mx == series[i] IN
              /\ u = IF Above(mx, E14) THEN "ns"
                     ELSE IF Above(mx, E12) THEN "us"
                     ELSE IF Above(mx, E10) THEN "ms"
                     ELSE IF Above(mx, E5) THEN "s"
                     ELSE "none"
              /\ ~Above(mx, E5) => AllUndefined

\* a call whose argument mixes a non-numeric entry with a microsecond value
C5_Witness ==
    /\ gpc = "done"
    /\ u = "us"
    /\ \E i \in 1..Len(series) : series[i][1] = "text"
    /\ \E i \in 1..Len(result) : result[i][1] = "ts"

\* C6 as stated: maxima 2e15, 3e12, 5e9, 150000, 500 give nanoseconds,
\* microseconds, milliseconds, seconds and not-a-timestamp.
C6_AsStated ==
    gpc = "done" =>
        /\ MaxIs(<<0, 2000000, 0>>) => u = "ns"
        /\ MaxIs(<<0, 3000, 0>>) => u = "us"
        /\ MaxIs(<<0, 5, 0>>) => u = "ms"
        /\ MaxIs(N(150000)) => u = "s"
        /\ MaxIs(N(500)) => u = "none" /\ AllUndefined

\* C6 amended: as stated, except that a maximum of 5e9 gives seconds (it
\* is not above 1e10).
C6_Amended ==
    gpc = "done" =>
        /\ MaxIs(<<0, 2000000, 0>>) => u = "ns"
        /\ MaxIs(<<0, 3000, 0>>) => u = "us"
        /\ MaxIs(<<0, 5, 0>>) => u = "s"
        /\ MaxIs(N(150000)) => u = "s"
        /\ MaxIs(N(500)) => u = "none" /\ AllUndefined

\* a call on a column whose maximum is 5e9
C6_Witness ==
    /\ gpc = "done"
    /\ MaxIs(<<0, 5, 0>>)
    /\ u = "s"
    /\ result # <<>>

====
